---- MODULE Spec2Model ----
(***************************************************************************)
(* Model of experiments/chunking/analyze_chunking.py (ChunkingAnalyzer).   *)
(*                                                                         *)
(* Python strings are sequences of one-character strings.  A Python dict   *)
(* is a function whose domain is its key set; None is the record NoneVal.  *)
(* A float quotient a / b is kept as the exact fraction [num, den]: every  *)
(* comparison made below (with 0, with 1, with a threshold given in        *)
(* tenths) has the same outcome on the correctly rounded double, because   *)
(* the operands are small integers and a quotient that differs from the    *)
(* threshold differs by at least 1 / (10 * den).                           *)
(***************************************************************************)
EXTENDS Integers, Sequences, FiniteSets, TLC

VARIABLES
    pc,             \* which call has been made on the inputs drawn by Init
    file_content,   \* argument of _find_content_in_response
    response_text,  \* argument `response` (a text) of the two detector functions
    sections,       \* local `sections` of _find_content_in_response (re.split's list)
    snippets,       \* what _find_content_in_response returned
    overlap,        \* a call of _has_significant_overlap: text, threshold, ret
    response,       \* argument `response` (an object) of analyze_file_references
    files_info,     \* argument `files_info`: insertion-ordered (path, info) pairs
    outcome,        \* what analyze_file_references returned or raised
    session_id,     \* self.session_id
    results,        \* self.results
    query,          \* argument `query` of the run_experiment in progress
    steps,          \* the steps the last run_experiment made, with their verdicts
    ret,            \* what the last run_experiment returned or raised
    written,        \* the payloads save_results wrote, in order
    runs            \* number of run_experiment calls made

detectVars == <<file_content, response_text, sections, snippets, overlap>>

analyzeVars == <<response, files_info, outcome>>

runVars == <<session_id, results, query, steps, ret, written, runs>>

vars == <<pc, detectVars, analyzeVars, runVars>>

(***************************************************************************)
(* Bounds of the model                                                     *)
(***************************************************************************)
MaxPieces == 3

MaxFiles == 2

MaxRuns == 2

MaxWrites == 1

(***************************************************************************)
(* Python string primitives                                                *)
(***************************************************************************)
Whitespace == {" ", "\n", "\t"}

WordChars ==
    {"a", "b", "c", "d", "e", "f", "g", "h", "i", "j", "k", "l", "m", "n", "o",
     "p", "q", "r", "s", "t", "u", "v", "w", "x", "y", "z", "F", "C", "_",
     "0", "1", "2", "3", "4", "5", "6", "7", "8", "9"}

\* Python `a in b` on strings.
IsSubstring(a, b) ==
    \E i \in 0..(Len(b) - Len(a)) : SubSeq(b, i + 1, i + Len(a)) = a

\* Number of leading characters of s, from position i on, that lie in set.
RECURSIVE Run(_, _, _)
Run(s, i, set) ==
    IF i > Len(s) \/ s[i] \notin set THEN 0 ELSE 1 + Run(s, i + 1, set)

\* str.strip(): leading and trailing whitespace removed.
RECURSIVE RStrip(_)
RStrip(s) ==
    IF s # <<>> /\ s[Len(s)] \in Whitespace
    THEN RStrip(SubSeq(s, 1, Len(s) - 1))
    ELSE s

Strip(s) ==
    LET t == RStrip(s) IN SubSeq(t, Run(t, 1, Whitespace) + 1, Len(t))

\* Number of characters of s before its first "\n" (Len(s) when it has none).
RECURSIVE LineLen(_)
LineLen(s) ==
    IF s = <<>> \/ Head(s) = "\n" THEN 0 ELSE 1 + LineLen(Tail(s))

\* str.split('\n'): always at least one piece.
RECURSIVE SplitLines(_)
SplitLines(s) ==
    LET n == LineLen(s)
    IN  IF n = Len(s)
        THEN <<s>>
        ELSE <<SubSeq(s, 1, n)>> \o SplitLines(SubSeq(s, n + 2, Len(s)))

\* str.replace(old, new): every non-overlapping occurrence, left to right.
RECURSIVE Replace(_, _, _)
Replace(s, old, new) ==
    IF Len(s) < Len(old) \/ old = <<>>
    THEN s
    ELSE IF SubSeq(s, 1, Len(old)) = old
         THEN new \o Replace(SubSeq(s, Len(old) + 1, Len(s)), old, new)
         ELSE <<s[1]>> \o Replace(SubSeq(s, 2, Len(s)), old, new)

RECURSIVE SumLen(_)
SumLen(ss) ==
    IF ss = <<>> THEN 0 ELSE Len(Head(ss)) + SumLen(Tail(ss))

(***************************************************************************)
(* Program constants                                                       *)
(***************************************************************************)
\* `len(line) > 10`
MinLineLen == 10

\* `threshold=0.7`, in tenths
DefaultThreshold == 7

\* thresholds are given in tenths: t stands for t / 10
ThresholdScale == 10

KwDef ==
    <<"d", "e", "f">>

KwClass ==
    <<"c", "l", "a", "s", "s">>

(***************************************************************************)
(* re.split(r'(def\s+\w+|class\s+\w+)', file_content)                      *)
(***************************************************************************)
\* End (inclusive) of a match of kw\s+\w+ that starts at position i; 0 if none.
\* \s+ and \w+ are greedy and their character classes are disjoint, so the
\* match, when there is one, takes the whole whitespace run and word run.
KeywordMatchEnd(s, i, kw) ==
    LET k  == Len(kw)
        ws == Run(s, i + k, Whitespace)
        wd == Run(s, i + k + ws, WordChars)
    IN  IF i + k - 1 <= Len(s) /\ SubSeq(s, i, i + k - 1) = kw /\ ws >= 1 /\ wd >= 1
        THEN i + k + ws + wd - 1
        ELSE 0

\* The alternation def\s+\w+|class\s+\w+ tried at position i, first branch first.
MarkerEnd(s, i) ==
    IF KeywordMatchEnd(s, i, KwDef) # 0
    THEN KeywordMatchEnd(s, i, KwDef)
    ELSE KeywordMatchEnd(s, i, KwClass)

\* The list re.split returns for a pattern with one capturing group: the text
\* before the first match, then each match followed by the text after it.
\* i is the scan position, start the first position of the pending text.
RECURSIVE ReSplitFrom(_, _, _)
ReSplitFrom(s, i, start) ==
    IF i > Len(s)
    THEN <<SubSeq(s, start, Len(s))>>
    ELSE LET e == MarkerEnd(s, i)
         IN  IF e = 0
             THEN ReSplitFrom(s, i + 1, start)
             ELSE <<SubSeq(s, start, i - 1), SubSeq(s, i, e)>>
                      \o ReSplitFrom(s, e + 1, e + 1)

ReSplit(s) == ReSplitFrom(s, 1, 1)

(***************************************************************************)
(* _has_significant_overlap                                                *)
(***************************************************************************)
\* LineMatches without the length filter
LineMatchesAnyLength(line, resp) ==
    IsSubstring(line, resp)

\* `len(line) > 10 and line in response`, line already stripped
LineMatches(line, resp) ==
    Len(line) > MinLineLen /\ IsSubstring(line, resp)

\* the loop over `lines`: matched_lines
RECURSIVE MatchedLines(_, _)
MatchedLines(lines, resp) ==
    IF lines = <<>>
    THEN 0
    ELSE (IF LineMatches(Strip(Head(lines)), resp) THEN 1 ELSE 0)
             + MatchedLines(Tail(lines), resp)

\* OverlapDecision with >= in place of >
OverlapDecisionNotStrict(matched, total, threshold) ==
    IF total # 0
    THEN matched * ThresholdScale >= threshold * total
    ELSE FALSE

\* `(matched_lines / len(lines) > threshold) if lines else False`
OverlapDecision(matched, total, threshold) ==
    IF total # 0
    THEN matched * ThresholdScale > threshold * total
    ELSE FALSE

has_significant_overlap(text, resp, threshold) ==
    LET lines == SplitLines(text)
    IN  OverlapDecision(MatchedLines(lines, resp), Len(lines), threshold)

(***************************************************************************)
(* _find_content_in_response                                               *)
(***************************************************************************)
\* `sections[i] + (sections[i+1] if i+1 < len(sections) else "")`, i 1-based here
SectionAt(secs, i) ==
    secs[i] \o (IF i + 1 <= Len(secs) THEN secs[i + 1] ELSE <<>>)

\* SectionReferenced without the exact-containment test
SectionReferencedByLinesOnly(section, resp) ==
    has_significant_overlap(section, resp, DefaultThreshold)

\* `section in response or self._has_significant_overlap(section, response)`
SectionReferenced(section, resp) ==
    \/ IsSubstring(section, resp)
    \/ has_significant_overlap(section, resp, DefaultThreshold)

\* CollectSnippets with the loop step 1 instead of 2
RECURSIVE CollectSnippetsStepOne(_, _, _)
CollectSnippetsStepOne(secs, i, resp) ==
    IF i > Len(secs)
    THEN <<>>
    ELSE (IF SectionReferenced(SectionAt(secs, i), resp)
          THEN <<SectionAt(secs, i)>>
          ELSE <<>>)
             \o CollectSnippetsStepOne(secs, i + 1, resp)

\* the loop `for i in range(1, len(sections), 2)` from (1-based) index i on
RECURSIVE CollectSnippets(_, _, _)
CollectSnippets(secs, i, resp) ==
    IF i > Len(secs)
    THEN <<>>
    ELSE (IF SectionReferenced(SectionAt(secs, i), resp)
          THEN <<SectionAt(secs, i)>>
          ELSE <<>>)
             \o CollectSnippets(secs, i + 2, resp)

find_content_in_response(content, resp) ==
    CollectSnippets(ReSplit(content), 2, resp)

(***************************************************************************)
(* Inputs of the detector functions                                        *)
(***************************************************************************)
LineDefShort ==
    <<"d", "e", "f", " ", "f", "(", ")", ":", "\n">>

LineDefLong ==
    <<"d", "e", "f", " ", "c", "a", "l", "c", "u", "l", "a", "t", "e", "(", "x", ")", ":", "\n">>

LineBodyShort ==
    <<" ", " ", "r", "e", "t", "u", "r", "n", " ", "x", "\n">>

LineBodyLong ==
    <<" ", " ", "t", "o", "t", "a", "l", " ", "=", " ", "c", "o", "m", "p", "u", "t", "e", "(", "x", ")", "\n">>

LineUndef ==
    <<"u", "n", "d", "e", "f", " ", "x", "\n">>

LineSubclass ==
    <<"s", "u", "b", "c", "l", "a", "s", "s", " ", "F", "o", "o", "\n">>

Pieces ==
    {LineDefShort, LineDefLong, LineBodyShort, LineBodyLong, LineUndef, LineSubclass}

\* every concatenation of at most n pieces
RECURSIVE Concats(_)
Concats(n) ==
    IF n = 0
    THEN {<<>>}
    ELSE LET prev == Concats(n - 1)
         IN  prev \cup {p \o c : p \in Pieces, c \in prev}

Contents == Concats(MaxPieces)

TextShortExact ==
    <<"d", "e", "f", " ", "f", "(", ")", ":", "\n", " ", " ", "r", "e", "t", "u", "r", "n", " ", "x", "\n">>

TextShortStripped ==
    <<"d", "e", "f", " ", "f", "(", ")", ":", "\n", "r", "e", "t", "u", "r", "n", " ", "x", "\n">>

TextLongExact ==
    <<"d", "e", "f", " ", "c", "a", "l", "c", "u", "l", "a", "t", "e", "(", "x", ")", ":", "\n", " ", " ", "t", "o", "t", "a", "l", " ", "=", " ", "c", "o", "m", "p", "u", "t", "e", "(", "x", ")", "\n">>

TextLongStripped ==
    <<"d", "e", "f", " ", "c", "a", "l", "c", "u", "l", "a", "t", "e", "(", "x", ")", ":", "\n", "r", "e", "t", "u", "r", "n", " ", "x", "\n", "t", "o", "t", "a", "l", " ", "=", " ", "c", "o", "m", "p", "u", "t", "e", "(", "x", ")", "\n">>

TextHeaderOnly ==
    <<"s", "e", "e", " ", "d", "e", "f", " ", "c", "a", "l", "c", "u", "l", "a", "t", "e", "(", "x", ")", ":", " ", "i", "n", " ", "a", ".", "p", "y">>

TextBodyOnly ==
    <<"i", "t", " ", "s", "e", "t", "s", " ", "t", "o", "t", "a", "l", " ", "=", " ", "c", "o", "m", "p", "u", "t", "e", "(", "x", ")", " ", "a", "n", "d", " ", "s", "t", "o", "p", "s">>

ResponseTexts ==
    {<<>>, TextShortExact, TextShortStripped, TextLongExact, TextLongStripped,
     TextHeaderOnly, TextBodyOnly}

\* `threshold: Minimum percentage of lines that must match`, in tenths
Thresholds == {0, 3, 7, 10}

NoOverlap == [text |-> <<>>, threshold |-> 0, ret |-> FALSE]

NoneVal == [tag |-> "None"]

\* a Python str kept opaque
Str(x) == [tag |-> "str", val |-> x]

EmptyDict == [k \in {} |-> TRUE]

NoOutcome == [kind |-> "none"]

\* the analyzer as __init__ leaves it, no run made
FreshAnalyzer ==
    /\ session_id = NoneVal
    /\ results = EmptyDict
    /\ query = ""
    /\ steps = <<>>
    /\ ret = NoOutcome
    /\ written = <<>>
    /\ runs = 0

(***************************************************************************)
(* The detector functions applied to inputs drawn by Init                  *)
(***************************************************************************)
InitDetect ==
    /\ pc = "start"
    /\ file_content \in Contents
    /\ response_text \in ResponseTexts
    /\ sections = <<>>
    /\ snippets = <<>>
    /\ overlap = NoOverlap
    /\ response = NoneVal
    /\ files_info = <<>>
    /\ outcome = NoOutcome
    /\ FreshAnalyzer

FindContentInResponse ==
    /\ pc = "start"
    /\ pc' = "found"
    /\ sections' = ReSplit(file_content)
    /\ snippets' = find_content_in_response(file_content, response_text)
    /\ UNCHANGED <<file_content, response_text, overlap, analyzeVars, runVars>>

\* the texts the overlap test is applied to: each section of the split file
\* (as the loop of _find_content_in_response does), and the file as a whole
OverlapTexts(content, secs) ==
    {content} \cup {SectionAt(secs, 2 * k) : k \in 1..(Len(secs) \div 2)}

HasSignificantOverlap ==
    /\ pc = "start"
    /\ pc' = "tested"
    /\ sections' = ReSplit(file_content)
    /\ \E text \in OverlapTexts(file_content, sections'), threshold \in Thresholds :
           overlap' = [text |-> text, threshold |-> threshold,
                       ret |-> has_significant_overlap(text, response_text, threshold)]
    /\ UNCHANGED <<file_content, response_text, snippets, analyzeVars, runVars>>

NextDetect ==
    \/ FindContentInResponse
    \/ HasSignificantOverlap

SpecDetect == InitDetect /\ [][NextDetect]_vars

(***************************************************************************)
(* Properties of the detector functions                                    *)
(***************************************************************************)
\* The lines of a text, read off the positions of its newlines.
NewlinesOf(text) == {i \in 1..Len(text) : text[i] = "\n"}

LineCount(text) == Cardinality(NewlinesOf(text)) + 1

\* The k-th line: what lies between the (k-1)-th and the k-th newline.
LineOf(text, k) ==
    LET nl   == NewlinesOf(text)
        from == IF k = 1
                THEN 1
                ELSE 1 + CHOOSE i \in nl : Cardinality({j \in nl : j <= i}) = k - 1
        to   == IF k = LineCount(text)
                THEN Len(text)
                ELSE (CHOOSE i \in nl : Cardinality({j \in nl : j <= i}) = k) - 1
    IN  SubSeq(text, from, to)

\* A line without its leading and trailing whitespace.
Trimmed(line) ==
    LET solid == {i \in 1..Len(line) : line[i] \notin Whitespace}
    IN  IF solid = {}
        THEN <<>>
        ELSE SubSeq(line, CHOOSE i \in solid : \A j \in solid : i <= j,
                          CHOOSE i \in solid : \A j \in solid : i >= j)

\* The lines of text that are significant (trimmed length above 10) and whose
\* trimmed form occurs in resp.
SignificantMatches(text, resp) ==
    {k \in 1..LineCount(text) :
        /\ Len(Trimmed(LineOf(text, k))) > 10
        /\ IsSubstring(Trimmed(LineOf(text, k)), resp)}

\* The sections of the file as the local list `sections` holds them.
SectionCount == Len(sections) \div 2

SectionNo(k) == sections[2 * k] \o sections[2 * k + 1]

\* Position in file_content at which section k starts.
SectionStart(k) == 1 + SumLen(SubSeq(sections, 1, 2 * k - 1))

\* C6: _find_content_in_response returns exactly the sections of the file, in
\* file order and each with its full text, for which the section is a literal
\* substring of the response or the line-overlap test (default threshold)
\* passes; every section that is a literal substring of the response is in
\* the result.
C6_SnippetsAreTheReferencedSections ==
    pc = "found" =>
        LET keep == {k \in 1..SectionCount :
                        \/ IsSubstring(SectionNo(k), response_text)
                        \/ has_significant_overlap(SectionNo(k), response_text,
                                                   DefaultThreshold)}
            nth(j) == CHOOSE k \in keep : Cardinality({m \in keep : m <= k}) = j
        IN  /\ Len(snippets) = Cardinality(keep)
            /\ \A j \in 1..Len(snippets) : snippets[j] = SectionNo(nth(j))
            /\ \A k \in 1..SectionCount :
                   /\ SectionNo(k) =
                          SubSeq(file_content, SectionStart(k),
                                 IF k = SectionCount
                                 THEN Len(file_content)
                                 ELSE SectionStart(k + 1) - 1)
                   /\ IsSubstring(SectionNo(k), response_text)
                          => \E j \in 1..Len(snippets) : snippets[j] = SectionNo(k)

\* A section contained literally in the response is returned although its
\* line-overlap test fails, and another section of the same file is left out.
C6_Witness ==
    /\ pc = "found"
    /\ SectionCount = 2
    /\ Len(snippets) = 1
    /\ snippets[1] = SectionNo(1)
    /\ IsSubstring(snippets[1], response_text)
    /\ ~has_significant_overlap(snippets[1], response_text, DefaultThreshold)

SingleFunctionFile(secs) ==
    Len(secs) = 3 /\ SubSeq(secs[2], 1, 3) = <<"d", "e", "f">>

\* Every line of text from line `first` on has trimmed length at most 10.
LinesShortFrom(text, first) ==
    LET lines == SplitLines(text)
    IN  \A k \in first..Len(lines) : Len(Strip(lines[k])) <= 10

\* C8 as stated: for a file holding a single function whose body lines all
\* have trimmed length at most 10, the line-overlap test is false for that
\* section for every response and every threshold, and the section is
\* returned only when the response contains it literally.
C8_ShortBodyNeverOverlaps ==
    LET sec == sections[2] \o sections[3]
    IN  (/\ pc \in {"tested", "found"}
         /\ SingleFunctionFile(sections)
         /\ LineCount(sec) >= 3
         /\ LinesShortFrom(sec, 2)) =>
            /\ (pc = "tested" /\ overlap.text = sec) => ~overlap.ret
            /\ (pc = "found" /\ snippets # <<>>) => IsSubstring(sec, response_text)

\* C8 (amended): for a file holding a single function all of whose lines, the
\* header line included, have trimmed length at most 10, the line-overlap
\* test is false for that section for every response and every threshold
\* that is not negative, and the section is returned only when the response
\* contains it literally.
C8_ShortLinesNeverOverlap ==
    LET sec == sections[2] \o sections[3]
    IN  (/\ pc \in {"tested", "found"}
         /\ SingleFunctionFile(sections)
         /\ LinesShortFrom(sec, 1)) =>
            /\ (pc = "tested" /\ overlap.text = sec /\ overlap.threshold >= 0)
                   => ~overlap.ret
            /\ (pc = "found" /\ snippets # <<>>) => IsSubstring(sec, response_text)

\* Every line of the short function occurs in the response, the section as a
\* whole does not, and the overlap test at threshold 0 says no.
C8_Witness ==
    /\ pc = "tested"
    /\ SingleFunctionFile(sections)
    /\ overlap.text = sections[2] \o sections[3]
    /\ LinesShortFrom(overlap.text, 1)
    /\ overlap.threshold = 0
    /\ LineCount(overlap.text) >= 3
    /\ \A k \in 1..LineCount(overlap.text) :
           IsSubstring(Trimmed(LineOf(overlap.text, k)), response_text)
    /\ ~IsSubstring(overlap.text, response_text)
    /\ ~overlap.ret

\* `def` or `class` at position i as a whole word, followed by whitespace and
\* an identifier.
WholeWordMarkerAt(s, i) ==
    /\ \/ KeywordMatchEnd(s, i, <<"d", "e", "f">>) # 0
       \/ KeywordMatchEnd(s, i, <<"c", "l", "a", "s", "s">>) # 0
    /\ i = 1 \/ s[i - 1] \notin WordChars

\* C9: every section starts where `def` or `class` occurs as a whole word
\* followed by an identifier, the text before the first marker is discarded,
\* and a file with no whole-word marker yields no section.
C9_SectionsStartAtWholeWordMarkers ==
    pc = "found" =>
        /\ \A k \in 1..SectionCount : WholeWordMarkerAt(file_content, SectionStart(k))
        /\ (\A i \in 1..Len(file_content) : ~WholeWordMarkerAt(file_content, i))
               => SectionCount = 0
        /\ \A j \in 1..Len(snippets) :
               \E k \in 1..SectionCount : snippets[j] = SectionNo(k)

(***************************************************************************)
(* analyze_file_references                                                 *)
(***************************************************************************)
\* Python truthiness of `response`: None and {} are falsy.
Truthy(v) == v # NoneVal /\ DOMAIN v # {}

\* dict.get(key, default)
Get(d, key, default) == IF key \in DOMAIN d THEN d[key] ELSE default

\* a / b as a Python float, kept as an exact fraction
Div(a, b) == [num |-> a, den |-> b]

\* the int 0 of the `else 0` branches
Zero == [num |-> 0, den |-> 1]

\* str(self.repo_path) of the analyzer
RepoPath ==
    <<"/", "r">>

\* `str(file_path).replace(str(self.repo_path) + "/", "")`
RelativePath(file_path) == Replace(file_path, RepoPath \o <<"/">>, <<>>)

\* the value stored under file_references[relative_path]
FileEntry(relative_path, file_content_, text) ==
    LET found == find_content_in_response(file_content_, text)
    IN  [path_referenced |-> IsSubstring(relative_path, text),
         snippets |-> found,
         size |-> Len(file_content_),
         referenced_size |-> SumLen(found),
         referenced_percentage |->
             IF file_content_ # <<>>
             THEN Div(SumLen(found), Len(file_content_))
             ELSE Zero]

\* `if path_referenced or snippets:`
HasSignal(entry) == entry.path_referenced \/ entry.snippets # <<>>

\* the loop `for file_path, file_info in files_info.items()` from item i on,
\* refs being file_references so far; an assignment to a key already present
\* replaces its value
RECURSIVE FileReferences(_, _, _, _)
FileReferences(files, i, text, refs) ==
    IF i > Len(files)
    THEN refs
    ELSE LET rel   == RelativePath(files[i].path)
             entry == FileEntry(rel, files[i].info.content, text)
         IN  FileReferences(files, i + 1, text,
                 IF HasSignal(entry)
                 THEN [p \in DOMAIN refs \cup {rel} |->
                          IF p = rel THEN entry ELSE refs[p]]
                 ELSE refs)

\* lines 129-161, for a response that passed `if not response`
AnalyzeResponse(resp, files) ==
    LET blocks == Get(resp, "content", <<[text |-> <<>>]>>)
    IN  IF blocks = <<>>
        THEN [kind |-> "raise", exc |-> "IndexError"]
        ELSE LET text == Get(blocks[1], "text", <<>>)
                 refs == FileReferences(files, 1, text, EmptyDict)
             IN  [kind |-> "return",
                  value |->
                      [file_references |-> refs,
                       token_usage |-> Get(resp, "usage", EmptyDict),
                       total_files |-> Len(files),
                       referenced_files |-> Cardinality(DOMAIN refs),
                       reference_rate |->
                           IF files # <<>>
                           THEN Div(Cardinality(DOMAIN refs), Len(files))
                           ELSE Zero]]

analyze_file_references(resp, files) ==
    IF ~Truthy(resp)
    THEN [kind |-> "return", value |-> EmptyDict]
    ELSE AnalyzeResponse(resp, files)

(***************************************************************************)
(* Inputs of analyze_file_references                                       *)
(***************************************************************************)
PathA ==
    <<"/", "r", "/", "a", ".", "p", "y">>

PathXA ==
    <<"/", "r", "/", "x", "a", ".", "p", "y">>

PathNested ==
    <<"/", "r", "/", "x", "/", "r", "/", "a", ".", "p", "y">>

Paths == {PathA, PathXA, PathNested}

ContentPlain ==
    <<"x", " ", "=", " ", "1", "\n">>

ContentFunc == LineDefShort \o LineBodyShort

ContentTwoFuncs ==
    ContentFunc \o
    <<"d", "e", "f", " ", "g", "(", ")", ":", "\n", " ", " ", "r", "e", "t", "u", "r", "n", " ", "x", "\n">>

FileContents == {<<>>, ContentPlain, ContentFunc, ContentTwoFuncs}

\* a FileRecord as collect_files_info builds it (the checksum is not read by
\* the analysis and is left out)
FileInfo(content) == [content |-> content, size |-> Len(content)]

\* insertion-ordered file sets of exactly n files with distinct paths
RECURSIVE FileSetsOfSize(_)
FileSetsOfSize(n) ==
    IF n = 0
    THEN {<<>>}
    ELSE {Append(fs, [path |-> p, info |-> FileInfo(c)]) :
              fs \in FileSetsOfSize(n - 1),
              p \in Paths,
              c \in FileContents}

DistinctPaths(fs) ==
    \A i, j \in 1..Len(fs) : i # j => fs[i].path # fs[j].path

FileSets ==
    {fs \in UNION {FileSetsOfSize(n) : n \in 0..MaxFiles} : DistinctPaths(fs)}

TextSeeA ==
    <<"s", "e", "e", " ", "a", ".", "p", "y">>

TextSeeXA ==
    <<"s", "e", "e", " ", "x", "a", ".", "p", "y">>

TextNoMatch ==
    <<"n", "o", "t", "h", "i", "n", "g", " ", "h", "e", "r", "e">>

TextPathAndFunc == TextSeeXA \o <<"\n">> \o ContentFunc

AnalyzeTexts ==
    {TextSeeA, TextSeeXA, TextNoMatch, ContentFunc, ContentTwoFuncs, TextPathAndFunc}

Usage == [input_tokens |-> 12, output_tokens |-> 34]

Responses ==
    {NoneVal,
     EmptyDict,
     [usage |-> Usage],
     [content |-> <<>>, usage |-> Usage],
     [content |-> <<EmptyDict>>, usage |-> Usage]}
    \cup {[content |-> <<[text |-> t]>>, usage |-> Usage] : t \in AnalyzeTexts}
    \cup {[content |-> <<[text |-> t]>>] : t \in {TextPathAndFunc}}

InitAnalyze ==
    /\ pc = "start"
    /\ file_content = <<>>
    /\ response_text = <<>>
    /\ sections = <<>>
    /\ snippets = <<>>
    /\ overlap = NoOverlap
    /\ response \in Responses
    /\ files_info \in FileSets
    /\ outcome = NoOutcome
    /\ FreshAnalyzer

AnalyzeFileReferences ==
    /\ pc = "start"
    /\ pc' = "analyzed"
    /\ outcome' = analyze_file_references(response, files_info)
    /\ UNCHANGED <<detectVars, response, files_info, runVars>>

NextAnalyze == AnalyzeFileReferences

SpecAnalyze == InitAnalyze /\ [][NextAnalyze]_vars

(***************************************************************************)
(* Properties of analyze_file_references                                   *)
(***************************************************************************)
Returned == pc = "analyzed" /\ outcome.kind = "return"

IsReport(v) ==
    DOMAIN v = {"file_references", "token_usage", "total_files",
                "referenced_files", "reference_rate"}

\* The text the response carries: content[0].text, the empty string when
\* `content` is absent or empty or the block has no text.
TextOf(resp) ==
    IF "content" \in DOMAIN resp /\ resp.content # <<>>
           /\ "text" \in DOMAIN resp.content[1]
    THEN resp.content[1].text
    ELSE <<>>

\* File i of the file set has a signal in the text: its relative path occurs
\* in it, or one of its sections is detected.
FileHasSignal(i, text) ==
    \/ IsSubstring(RelativePath(files_info[i].path), text)
    \/ find_content_in_response(files_info[i].info.content, text) # <<>>

\* C1: called with an empty response ({} or None), analyze_file_references
\* returns a report with file_references empty, referenced_files = 0,
\* reference_rate = 0 and total_files = the number of input files.
C1_EmptyResponseGivesZeroReport ==
    (pc = "analyzed" /\ (response = NoneVal \/ response = EmptyDict)) =>
        /\ outcome.kind = "return"
        /\ IsReport(outcome.value)
        /\ outcome.value.file_references = EmptyDict
        /\ outcome.value.referenced_files = 0
        /\ outcome.value.reference_rate.num = 0
        /\ outcome.value.total_files = Len(files_info)

\* C2: for a non-empty response whose `content` is absent or an empty list,
\* analyze_file_references raises nothing and analyses the files against the
\* empty string, so that no section is detected.
C2_MissingContentIsEmptyText ==
    (pc = "analyzed" /\ Truthy(response)
        /\ ("content" \notin DOMAIN response \/ response.content = <<>>)) =>
        /\ outcome.kind = "return"
        /\ IsReport(outcome.value)
        /\ outcome.value.file_references = FileReferences(files_info, 1, <<>>, EmptyDict)
        /\ \A p \in DOMAIN outcome.value.file_references :
               outcome.value.file_references[p].snippets = <<>>

\* C3: in the report, every input file has an entry in file_references if and
\* only if its relative path occurs in the response text or one of its
\* sections was detected; a file with neither signal has no entry.
C3_EntryIffSignal ==
    (Returned /\ IsReport(outcome.value)) =>
        \A i \in 1..Len(files_info) :
            RelativePath(files_info[i].path) \in DOMAIN outcome.value.file_references
                <=> FileHasSignal(i, TextOf(response))

\* C4: reference_rate = referenced_files / total_files, it is 0 for an empty
\* file set, and it is 1.0 (referenced_files = total_files) whenever every
\* input file has a path match or a snippet, also when distinct input paths
\* reduce to the same relative path.
C4_RateIsOneWhenAllReferenced ==
    (Returned /\ IsReport(outcome.value)) =>
        LET v == outcome.value
        IN  /\ v.total_files = Len(files_info)
            /\ files_info # <<>> =>
                   /\ v.reference_rate.num = v.referenced_files
                   /\ v.reference_rate.den = v.total_files
            /\ files_info = <<>> => v.reference_rate.num = 0
            /\ (/\ files_info # <<>>
                /\ \A i \in 1..Len(files_info) : FileHasSignal(i, TextOf(response)))
                   => /\ v.referenced_files = v.total_files
                      /\ v.reference_rate.num = v.reference_rate.den

\* C5: for every entry of the report, referenced_size is the sum of the
\* lengths of its snippets and is at most size, the length of the file
\* content, so referenced_percentage lies in [0,1]; it is 0 when the file
\* content is empty.
C5_ReferencedSizeWithinSize ==
    (Returned /\ IsReport(outcome.value)) =>
        \A p \in DOMAIN outcome.value.file_references :
            LET e == outcome.value.file_references[p]
            IN  /\ e.referenced_size = SumLen(e.snippets)
                /\ \E i \in 1..Len(files_info) :
                       /\ RelativePath(files_info[i].path) = p
                       /\ e.size = Len(files_info[i].info.content)
                /\ e.referenced_size <= e.size
                /\ e.referenced_percentage.den > 0
                /\ 0 <= e.referenced_percentage.num
                /\ e.referenced_percentage.num <= e.referenced_percentage.den
                /\ e.size > 0 =>
                       /\ e.referenced_percentage.num = e.referenced_size
                       /\ e.referenced_percentage.den = e.size
                /\ e.size = 0 => e.referenced_percentage.num = 0

\* One report holds an entry for an empty file (percentage 0) and an entry
\* whose snippet is the whole file content (percentage 1).
C5_Witness ==
    /\ Returned
    /\ IsReport(outcome.value)
    /\ \E p, q \in DOMAIN outcome.value.file_references :
           /\ outcome.value.file_references[p].size = 0
           /\ outcome.value.file_references[p].referenced_percentage.num = 0
           /\ Len(outcome.value.file_references[q].snippets) = 1
           /\ outcome.value.file_references[q].size > 0
           /\ outcome.value.file_references[q].referenced_size
                  = outcome.value.file_references[q].size

(***************************************************************************)
(* run_experiment and save_results                                         *)
(*                                                                         *)
(* What the `claude` subprocess prints is the environment's choice:        *)
(*   empty   - nothing on stdout                                           *)
(*   garbage - text that is not JSON (json.JSONDecodeError)                *)
(*   array   - JSON that is not an object (no .get: AttributeError)        *)
(*   object  - a JSON object, `data`                                       *)
(***************************************************************************)
\* Python truthiness of a str or None
TruthyStr(v) == v # NoneVal /\ v.val # ""

SessionOutputs ==
    {[kind |-> "empty"], [kind |-> "garbage"], [kind |-> "array"]}
    \cup {[kind |-> "object", data |-> d] :
              d \in {EmptyDict, [id |-> Str("")], [id |-> Str("s1")], [id |-> Str("s2")]}}

DirOutputs ==
    {[kind |-> "empty"], [kind |-> "garbage"], [kind |-> "array"],
     [kind |-> "object", data |-> [status |-> Str("ok")]]}

QueryOutputs ==
    {[kind |-> "empty"], [kind |-> "garbage"], [kind |-> "array"]}
    \cup {[kind |-> "object", data |-> d] :
              d \in {EmptyDict,
                     [usage |-> Usage],
                     [content |-> <<>>, usage |-> Usage],
                     [content |-> <<[text |-> TextSeeA]>>, usage |-> Usage],
                     [content |-> <<[text |-> TextPathAndFunc]>>, usage |-> Usage]}}

\* what collect_files_info may find under the repository
RunFileSets == {fs \in FileSets : Len(fs) <= 1 /\ \A i \in 1..Len(fs) : fs[i].path = PathXA}

Queries == {"q1", "q2"}

Return(v) == [kind |-> "return", value |-> v]

Raise(e) == [kind |-> "raise", exc |-> e]

\* create_session: the new self.session_id and what the method returns
create_session(sid, out) ==
    CASE out.kind = "object" ->
             [session_id |-> Get(out.data, "id", NoneVal),
              result |-> Return(Get(out.data, "id", NoneVal))]
      [] out.kind = "array" ->
             [session_id |-> sid, result |-> Raise("AttributeError")]
      [] OTHER ->
             [session_id |-> sid, result |-> Return(NoneVal)]

\* send_directory: True, False or an exception
send_directory(sid, out) ==
    IF ~TruthyStr(sid)
    THEN Return(FALSE)
    ELSE CASE out.kind \in {"empty", "object"} -> Return(TRUE)
           [] out.kind = "garbage" -> Return(FALSE)
           [] OTHER -> Raise("AttributeError")

\* query_claude: the response object, None or an exception
query_claude(sid, out) ==
    IF ~TruthyStr(sid)
    THEN Return(NoneVal)
    ELSE CASE out.kind = "empty" -> Return(EmptyDict)
           [] out.kind = "garbage" -> Return(NoneVal)
           [] out.kind = "array" -> Raise("AttributeError")
           [] OTHER ->
                  IF Get(out.data, "content", <<[text |-> <<>>]>>) = <<>>
                  THEN Raise("IndexError")
                  ELSE Return(out.data)

\* run_experiment ends: with `return {"error": msg}`, or with an exception
Finish(r) ==
    /\ pc' = "idle"
    /\ ret' = [call |-> "run_experiment"] @@ r

ReturnError(msg) == Finish(Return([error |-> msg]))

Step(name, verdict) == steps' = Append(steps, [step |-> name, verdict |-> verdict])

Verdict(r, truthy) ==
    IF r.kind = "raise" THEN "raised" ELSE IF truthy THEN "ok" ELSE "failed"

InitRun ==
    /\ pc = "idle"
    /\ file_content = <<>>
    /\ response_text = <<>>
    /\ sections = <<>>
    /\ snippets = <<>>
    /\ overlap = NoOverlap
    /\ response = NoneVal
    /\ files_info = <<>>
    /\ outcome = NoOutcome
    /\ FreshAnalyzer

\* a caller invokes run_experiment(query)
RunExperiment ==
    /\ pc = "idle"
    /\ runs < MaxRuns
    /\ runs' = runs + 1
    /\ pc' = "create"
    /\ query' \in Queries
    /\ steps' = <<>>
    /\ ret' = NoOutcome
    /\ response' = NoneVal
    /\ files_info' = <<>>
    /\ outcome' = NoOutcome
    /\ UNCHANGED <<detectVars, session_id, results, written>>

\* Step 1: `if not self.create_session(): return {"error": ...}`
CreateSessionStep ==
    /\ pc = "create"
    /\ \E out \in SessionOutputs :
           LET r == create_session(session_id, out)
           IN  /\ session_id' = r.session_id
               /\ Step("create_session",
                       Verdict(r.result, r.result.kind = "return" /\ TruthyStr(r.result.value)))
               /\ IF r.result.kind = "raise"
                  THEN Finish(r.result)
                  ELSE IF ~TruthyStr(r.result.value)
                       THEN ReturnError("Failed to create session")
                       ELSE pc' = "send" /\ ret' = ret
    /\ UNCHANGED <<detectVars, analyzeVars, results, query, written, runs>>

\* Step 2: `if not self.send_directory(): return {"error": ...}`
SendDirectoryStep ==
    /\ pc = "send"
    /\ \E out \in DirOutputs :
           LET r == send_directory(session_id, out)
           IN  /\ Step("send_directory", Verdict(r, r.kind = "return" /\ r.value))
               /\ IF r.kind = "raise"
                  THEN Finish(r)
                  ELSE IF ~r.value
                       THEN ReturnError("Failed to send directory")
                       ELSE pc' = "collect" /\ ret' = ret
    /\ UNCHANGED <<detectVars, analyzeVars, session_id, results, query, written, runs>>

\* Step 3: `files_info = self.collect_files_info()`
CollectFilesInfoStep ==
    /\ pc = "collect"
    /\ files_info' \in RunFileSets
    /\ Step("collect_files_info", "ok")
    /\ pc' = "query"
    /\ UNCHANGED <<detectVars, response, outcome, session_id, results, query,
                   ret, written, runs>>

\* QueryClaudeStep without `if not response: return {"error": ...}`
QueryClaudeStepUnchecked ==
    /\ pc = "query"
    /\ \E out \in QueryOutputs :
           LET r == query_claude(session_id, out)
           IN  /\ Step("query_claude", Verdict(r, r.kind = "return" /\ Truthy(r.value)))
               /\ IF r.kind = "raise"
                  THEN Finish(r) /\ response' = response
                  ELSE response' = r.value /\ pc' = "analyze" /\ ret' = ret
    /\ UNCHANGED <<detectVars, files_info, outcome, session_id, results, query,
                   written, runs>>

\* Step 4: `response = self.query_claude(query)` and the check of it
QueryClaudeStep ==
    /\ pc = "query"
    /\ \E out \in QueryOutputs :
           LET r == query_claude(session_id, out)
           IN  /\ Step("query_claude", Verdict(r, r.kind = "return" /\ Truthy(r.value)))
               /\ IF r.kind = "raise"
                  THEN Finish(r) /\ response' = response
                  ELSE /\ response' = r.value
                       /\ IF ~Truthy(r.value)
                          THEN ReturnError("Failed to get response")
                          ELSE pc' = "analyze" /\ ret' = ret
    /\ UNCHANGED <<detectVars, files_info, outcome, session_id, results, query,
                   written, runs>>

\* Steps 5 and 6: the analysis, the assignment of self.results, the return
AnalyzeStep ==
    /\ pc = "analyze"
    /\ outcome' = analyze_file_references(response, files_info)
    /\ Step("analyze_file_references", Verdict(outcome', TRUE))
    /\ IF outcome'.kind = "raise"
       THEN Finish(outcome') /\ results' = results
       ELSE /\ results' = [repo_path |-> RepoPath,
                           query |-> query,
                           session_id |-> session_id,
                           timestamp |-> runs,
                           analysis |-> outcome'.value,
                           response |-> response]
            /\ Finish(Return(results'))
    /\ UNCHANGED <<detectVars, response, files_info, session_id, query, written, runs>>

\* a caller invokes save_results()
SaveResults ==
    /\ pc = "idle"
    /\ IF results = EmptyDict
       THEN /\ ret' = [call |-> "save_results"] @@ Return(NoneVal)
            /\ written' = written
       ELSE /\ Len(written) < MaxWrites
            /\ ret' = [call |-> "save_results"] @@ Return(Str("output_path"))
            /\ written' = Append(written, results)
    /\ UNCHANGED <<pc, detectVars, analyzeVars, session_id, results, query, steps, runs>>

NextRun ==
    \/ RunExperiment
    \/ CreateSessionStep
    \/ SendDirectoryStep
    \/ CollectFilesInfoStep
    \/ QueryClaudeStep
    \/ AnalyzeStep
    \/ SaveResults

SpecRun == InitRun /\ [][NextRun]_vars

(***************************************************************************)
(* Properties of run_experiment                                            *)
(***************************************************************************)
AllSteps ==
    <<"create_session", "send_directory", "collect_files_info", "query_claude",
      "analyze_file_references">>

\* The steps made so far are the first steps of the fixed order, and a step
\* that did not succeed is the last one made: the run is over.
StepsInOrder ==
    /\ Len(steps) <= Len(AllSteps)
    /\ \A i \in 1..Len(steps) :
           /\ steps[i].step = AllSteps[i]
           /\ steps[i].verdict # "ok" => (i = Len(steps) /\ pc = "idle")
    /\ pc \in {"send", "collect", "query", "analyze"} => steps # <<>>

\* self.results changes only at the end of a run whose five steps all
\* succeeded, and is then what run_experiment returns.
ResultsOnlyOnSuccess ==
    results' # results =>
        /\ Len(steps') = Len(AllSteps)
        /\ \A i \in 1..Len(steps') : steps'[i].verdict = "ok"
        /\ ret' = [call |-> "run_experiment"] @@ Return(results')
        /\ "error" \notin DOMAIN results'

\* A step that fails (no session id, send_directory False, response None or
\* empty) ends the run with a dict holding `error` and leaves self.results.
FailureReturnsError ==
    (steps' # steps /\ steps' # <<>> /\ steps'[Len(steps')].verdict = "failed") =>
        /\ pc' = "idle"
        /\ ret'.call = "run_experiment"
        /\ ret'.kind = "return"
        /\ DOMAIN ret'.value = {"error"}
        /\ results' = results

\* save_results writes nothing while self.results is empty.
NothingSavedWithoutResults ==
    results = EmptyDict => written' = written

\* C10: run_experiment makes its steps in the order create_session,
\* send_directory, collect_files_info, query_claude, analyze_file_references;
\* no step follows a failed one; self.results is assigned only when every
\* step succeeded; a failure returns a dict with an `error` key and leaves
\* self.results unchanged, so that save_results on a fresh analyzer writes
\* nothing.
C10_RunExperimentStepOrder ==
    /\ [](StepsInOrder /\ (runs = 0 => results = EmptyDict))
    /\ [][ResultsOnlyOnSuccess /\ FailureReturnsError /\ NothingSavedWithoutResults]_vars

\* The first run of a fresh analyzer got as far as the query, which failed;
\* save_results was then called and wrote nothing.
C10_Witness ==
    /\ pc = "idle"
    /\ runs = 1
    /\ Len(steps) = 4
    /\ steps[4].verdict = "failed"
    /\ results = EmptyDict
    /\ ret = [call |-> "save_results"] @@ Return(NoneVal)
    /\ written = <<>>

====
